---- MODULE Spec2Model ----
(***************************************************************************)
(* StarRailAutoProxy: the ScaleLargeMap operation                          *)
(* (src/src/sr/operation/unit/scale_large_map.py) driven by the Operation  *)
(* round loop, and the image helpers of src/src/basic/img/cv2_utils.py     *)
(* (match_template, find_max_circle, concat_vertically, is_same_image).    *)
(*                                                                         *)
(* Spec     : one ScaleLargeMap operation, its rounds, pauses and resumes. *)
(* SpecImg  : one call of an image helper on bounded inputs.               *)
(* SpecMap  : one call of a lookup of src/src/sr/constants/map.py.         *)
(***************************************************************************)
EXTENDS Integers, Sequences, FiniteSets, TLC

(* ------------------------------ bounds -------------------------------- *)
\* |scale| of the operation under test ranges over 0..MaxScale
MaxScale == 6
\* number of pause/resume cycles of one operation
MaxPauses == 2
\* the matcher reports the button at x in 0..MaxMatchX of the cropped area
MaxMatchX == 1

\* images and templates have 1..MaxDim rows and 1..MaxDim columns
MaxDim == 3
\* a score map of match_template has at most MaxLocs locations
MaxLocs == 3
\* HoughCircles reports at most MaxCircles circles
MaxCircles == 2
\* the images compared by is_same_image have 1..MaxPixels pixels
MaxPixels == 2
\* a level argument of a region lookup ranges over -MaxLevel..MaxLevel
MaxLevel == 2

(* -------------------------- program constants ------------------------- *)
\* super().__init__(ctx, 5, ...): the round budget of ScaleLargeMap
TryTimes == 5
\* ScaleLargeMap.rect = Rect(600, 960, 1040, 1020): its left top corner
RectX1 == 600
RectY1 == 960
\* cv2.HoughCircles(..., minRadius=160, maxRadius=200), in pixels
MinRadius == 160
MaxRadius == 200
\* match_template(img, next_part, 0.5) of concat_vertically, in tenths
ConcatThreshold == 5

VARIABLES
    \* ---- ScaleLargeMap / Operation fields
    scale,          \* self.scale
    click_times,    \* self.click_times
    pos,            \* self.pos: <<>> is None, <<m>> a MatchResult m
    op_round,       \* Operation: rounds consumed of the budget
    status,         \* Operation: READY, RUNNING, SUCCESS, FAIL
    paused,         \* Operation: externally paused
    \* ---- observations of the run (what the controller and the screen saw)
    rounds,         \* number of _execute_one_round calls made
    n_clicks,       \* number of clicks sent to the controller
    last_round,     \* the latest round: [result, looked, shot, clicked]
    last_event,     \* init start round pause resume_found resume_none resume_raise
    pause_clicks,   \* n_clicks at the latest pause
    last_click,     \* <<>> or <<[target, shot_epoch, epoch]>> of the latest click
    all_retry,      \* every round so far returned RETRY
    never_found,    \* every screenshot so far showed no button (and none failed)
    epoch,          \* number of pauses so far
    pos_epoch,      \* epoch in which the screenshot behind pos was taken
    round_raised,   \* <<>> or <<[round, clicks]>>: the round whose lookup raised
    matched,        \* <<>> or <<m>>: result.max of the latest lookup, as created
    \* ---- one call of an image helper
    fn,             \* none, or the name of the helper that is called
    input,          \* the arguments of the call
    output          \* [state |-> pending | returned | raised, value |-> ...]

opvars == <<scale, click_times, pos, op_round, status, paused>>
obsvars == <<rounds, n_clicks, last_round, last_event, pause_clicks, last_click,
             all_retry, never_found, epoch, pos_epoch, round_raised, matched>>
imgvars == <<fn, input, output>>
vars == <<opvars, obsvars, imgvars>>

Abs(n) == IF n < 0 THEN -n ELSE n

(* ------------------------- ScaleLargeMap ------------------------------ *)
NoPos == <<>>

\* What one screenshot plus template match can yield inside get_click_pos:
\* the screenshot or the match raises, the button is not on the screen
\* (result.max is None), or the matcher finds it at (x, y) of the cropped area.
Shots ==
    {[kind |-> "raise", x |-> 0, y |-> 0], [kind |-> "none", x |-> 0, y |-> 0]}
    \cup {[kind |-> "found", x |-> mx, y |-> 0] : mx \in 0..MaxMatchX}

\* template_id = 'plus' if self.scale > 0 else 'minus'
TemplateId(sc) == IF sc > 0 THEN "plus" ELSE "minus"

\* result.max of self.ctx.im.match_template(crop, template_id) as the matcher
\* creates it: None, or the maximum-confidence MatchResult with x and y in
\* the coordinates of the cropped area.
MatcherMax(sc, shot) ==
    IF shot.kind = "found"
    THEN <<[template_id |-> TemplateId(sc), x |-> shot.x, y |-> shot.y]>>
    ELSE NoPos

\* get_click_pos for a shot that does not raise: result.max.x += x1 and
\* result.max.y += y1 are applied to the matcher's own object, which is then
\* returned; None is returned as it is.
GetClickPos(sc, shot) ==
    LET max == MatcherMax(sc, shot)
    IN  IF max # NoPos
        THEN <<[max[1] EXCEPT !.x = @ + RectX1, !.y = @ + RectY1]>>
        ELSE NoPos

\* ExecuteOneRound with a miss reported as WAIT instead of RETRY.
ExecuteOneRoundMissWaits(p, ct, sc, shot) ==
    IF p = NoPos /\ shot.kind = "raise"
    THEN [result |-> "RAISE", pos |-> p, click_times |-> ct, clicked |-> FALSE]
    ELSE LET p2 == IF p = NoPos THEN GetClickPos(sc, shot) ELSE p
         IN  IF p2 # NoPos
             THEN [result |-> IF ct + 1 = Abs(sc) THEN "SUCCESS" ELSE "WAIT",
                   pos |-> p2, click_times |-> ct + 1, clicked |-> TRUE]
             ELSE [result |-> "WAIT", pos |-> p2, click_times |-> ct,
                   clicked |-> FALSE]

\* ExecuteOneRound with the exception of the lookup swallowed: a failed
\* lookup counts as "button not found".
ExecuteOneRoundSwallows(p, ct, sc, shot) ==
    LET p2 == IF p = NoPos THEN GetClickPos(sc, shot) ELSE p
    IN  IF p2 # NoPos
        THEN [result |-> IF ct + 1 = Abs(sc) THEN "SUCCESS" ELSE "WAIT",
              pos |-> p2, click_times |-> ct + 1, clicked |-> TRUE]
        ELSE [result |-> "RETRY", pos |-> p2, click_times |-> ct,
              clicked |-> FALSE]

\* ExecuteOneRound with the click sent but not counted.
ExecuteOneRoundKeepsCount(p, ct, sc, shot) ==
    IF p = NoPos /\ shot.kind = "raise"
    THEN [result |-> "RAISE", pos |-> p, click_times |-> ct, clicked |-> FALSE]
    ELSE LET p2 == IF p = NoPos THEN GetClickPos(sc, shot) ELSE p
         IN  IF p2 # NoPos
             THEN [result |-> IF ct + 1 = Abs(sc) THEN "SUCCESS" ELSE "WAIT",
                   pos |-> p2, click_times |-> ct, clicked |-> TRUE]
             ELSE [result |-> "RETRY", pos |-> p2, click_times |-> ct,
                   clicked |-> FALSE]

\* _execute_one_round on (self.pos, self.click_times, self.scale) with the
\* shot a lookup would see: the result code, the new fields and whether a
\* click was sent. The lookup happens only while pos is None.
ExecuteOneRound(p, ct, sc, shot) ==
    IF p = NoPos /\ shot.kind = "raise"
    THEN [result |-> "RAISE", pos |-> p, click_times |-> ct, clicked |-> FALSE]
    ELSE LET p2 == IF p = NoPos THEN GetClickPos(sc, shot) ELSE p
         IN  IF p2 # NoPos
             THEN [result |-> IF ct + 1 = Abs(sc) THEN "SUCCESS" ELSE "WAIT",
                   pos |-> p2, click_times |-> ct + 1, clicked |-> TRUE]
             ELSE [result |-> "RETRY", pos |-> p2, click_times |-> ct,
                   clicked |-> FALSE]

\* Operation.execute's handling of a round result: SUCCESS ends the operation,
\* an exception ends it with FAIL, RETRY and WAIT go on until the budget of
\* try_times rounds is used up, which ends it with FAIL.
AfterRound(result, round) ==
    CASE result = "SUCCESS" -> "SUCCESS"
      [] result = "RAISE" -> "FAIL"
      [] OTHER -> IF round >= TryTimes THEN "FAIL" ELSE "RUNNING"

\* RoundCost with WAIT rounds free of charge.
RoundCostWaitFree(result) == IF result = "WAIT" THEN 0 ELSE 1

\* the budget a round of the given result consumes
RoundCost(result) == 1

Start ==
    /\ fn = "none"
    /\ status = "READY"
    /\ status' = "RUNNING"
    /\ last_event' = "start"
    /\ UNCHANGED <<scale, click_times, pos, op_round, paused, rounds, n_clicks,
                   last_round, pause_clicks, last_click, all_retry, never_found,
                   epoch, pos_epoch, round_raised, matched, imgvars>>

\* One iteration of Operation.execute: a whole round of ScaleLargeMap.
Round ==
    /\ fn = "none"
    /\ status = "RUNNING"
    /\ ~paused
    /\ op_round < TryTimes
    /\ \E shot \in Shots :
        LET r == ExecuteOneRound(pos, click_times, scale, shot)
            looked == pos = NoPos
        IN  /\ pos' = r.pos
            /\ click_times' = r.click_times
            /\ op_round' = op_round + RoundCost(r.result)
            /\ status' = AfterRound(r.result, op_round')
            /\ rounds' = rounds + 1
            /\ n_clicks' = IF r.clicked THEN n_clicks + 1 ELSE n_clicks
            /\ last_round' = [result |-> r.result, looked |-> looked,
                               shot |-> IF looked THEN shot.kind ELSE "unused",
                               clicked |-> r.clicked]
            /\ last_event' = "round"
            /\ last_click' = IF r.clicked
                             THEN <<[target |-> r.pos[1],
                                     shot_epoch |-> IF looked THEN epoch ELSE pos_epoch,
                                     epoch |-> epoch]>>
                             ELSE last_click
            /\ all_retry' = (all_retry /\ r.result = "RETRY")
            /\ never_found' = (never_found /\ (looked => shot.kind = "none"))
            /\ pos_epoch' = IF looked THEN epoch ELSE pos_epoch
            /\ round_raised' = IF looked /\ shot.kind = "raise"
                               THEN <<[round |-> rounds + 1, clicks |-> n_clicks]>>
                               ELSE round_raised
            /\ matched' = IF looked /\ shot.kind # "raise"
                          THEN MatcherMax(scale, shot)
                          ELSE matched
    /\ UNCHANGED <<scale, paused, epoch, pause_clicks, imgvars>>

\* The controlling process suspends the running operation between two rounds.
Pause ==
    /\ fn = "none"
    /\ status = "RUNNING"
    /\ ~paused
    /\ epoch < MaxPauses
    /\ paused' = TRUE
    /\ epoch' = epoch + 1
    /\ last_event' = "pause"
    /\ pause_clicks' = n_clicks
    /\ UNCHANGED <<scale, click_times, pos, op_round, status, rounds, n_clicks,
                   last_round, last_click, all_retry, never_found, pos_epoch,
                   round_raised, matched, imgvars>>

\* OnResume without the new lookup: the remembered target is kept.
OnResumeKeepsPos ==
    /\ fn = "none"
    /\ status = "RUNNING"
    /\ paused
    /\ paused' = FALSE
    /\ last_event' = IF pos # NoPos THEN "resume_found" ELSE "resume_none"
    /\ UNCHANGED <<scale, click_times, pos, op_round, status, rounds, n_clicks,
                   last_round, pause_clicks, last_click, all_retry, never_found,
                   epoch, pos_epoch, round_raised, matched, imgvars>>

\* OnResume that also starts counting the clicks anew.
OnResumeResetsCount ==
    /\ fn = "none"
    /\ status = "RUNNING"
    /\ paused
    /\ \E shot \in Shots :
        IF shot.kind = "raise"
        THEN /\ status' = "FAIL"
             /\ never_found' = FALSE
             /\ last_event' = "resume_raise"
             /\ UNCHANGED <<pos, paused, pos_epoch, matched, click_times>>
        ELSE /\ pos' = GetClickPos(scale, shot)
             /\ matched' = MatcherMax(scale, shot)
             /\ click_times' = 0
             /\ pos_epoch' = epoch
             /\ paused' = FALSE
             /\ never_found' = (never_found /\ shot.kind = "none")
             /\ last_event' = IF shot.kind = "found" THEN "resume_found"
                                                     ELSE "resume_none"
             /\ UNCHANGED status
    /\ UNCHANGED <<scale, op_round, rounds, n_clicks, last_round,
                   pause_clicks, last_click, all_retry, epoch, round_raised,
                   imgvars>>

\* ScaleLargeMap.on_resume: self.pos = self.get_click_pos(), then
\* super().on_resume(). An exception of get_click_pos leaves pos as it was
\* and is turned into FAIL at the operation boundary.
OnResume ==
    /\ fn = "none"
    /\ status = "RUNNING"
    /\ paused
    /\ \E shot \in Shots :
        IF shot.kind = "raise"
        THEN /\ status' = "FAIL"
             /\ never_found' = FALSE
             /\ last_event' = "resume_raise"
             /\ UNCHANGED <<pos, paused, pos_epoch, matched>>
        ELSE /\ pos' = GetClickPos(scale, shot)
             /\ matched' = MatcherMax(scale, shot)
             /\ pos_epoch' = epoch
             /\ paused' = FALSE
             /\ never_found' = (never_found /\ shot.kind = "none")
             /\ last_event' = IF shot.kind = "found" THEN "resume_found"
                                                     ELSE "resume_none"
             /\ UNCHANGED status
    /\ UNCHANGED <<scale, click_times, op_round, rounds, n_clicks, last_round,
                   pause_clicks, last_click, all_retry, epoch, round_raised,
                   imgvars>>

(* ----------------------------- cv2_utils ------------------------------ *)
\* Scores are in tenths: [t |-> "num", v |-> 5] is 0.5. TM_CCOEFF_NORMED also
\* yields non-finite scores on uniform areas: +inf and nan.
Num(v) == [t |-> "num", v |-> v]
Inf == [t |-> "inf", v |-> 0]
NaN == [t |-> "nan", v |-> 0]
ScoreVals == {Num(0), Num(5), Num(10), Inf, NaN}
Thresholds == {0, 5, 10}

\* result >= threshold, as IEEE floats compare: nan is never >= anything
ScoreGe(c, threshold) == c.t = "inf" \/ (c.t = "num" /\ c.v >= threshold)
\* a > b on scores
ScoreGt(a, b) ==
    \/ (a.t = "inf" /\ b.t = "num")
    \/ (a.t = "num" /\ b.t = "num" /\ a.v > b.v)
\* np.isfinite
IsFinite(c) == c.t = "num"

Min(a, b) == IF a < b THEN a ELSE b
Max(a, b) == IF a > b THEN a ELSE b

\* An image shape is <<rows, cols>>: shape[0] and shape[1] of numpy are
\* shape[1] and shape[2] here.
Shapes == (1..MaxDim) \X (1..MaxDim)

\* MatchResult(c, x, y, w, h)
MatchResult(c, x, y, w, h) == [confidence |-> c, x |-> x, y |-> y, w |-> w, h |-> h]

\* cv2.matchTemplate's result shape <<rows, cols>>, or <<>> when it raises.
\* Without a mask the library swaps image and template when the template is
\* at least as large in both dimensions, and raises when it is larger in one
\* and smaller in the other; with a mask a larger template always raises.
CvMatchTemplateShape(source, template, has_mask) ==
    LET fits == source[1] >= template[1] /\ source[2] >= template[2]
        swaps == source[1] <= template[1] /\ source[2] <= template[2]
    IN  IF fits
        THEN <<source[1] - template[1] + 1, source[2] - template[2] + 1>>
        ELSE IF ~has_mask /\ swaps
             THEN <<template[1] - source[1] + 1, template[2] - source[2] + 1>>
             ELSE <<>>

\* the <<y, x>> locations of a score map of the given shape
Locs(shape) ==
    IF shape = <<>> THEN {} ELSE (0..(shape[1] - 1)) \X (0..(shape[2] - 1))

\* all score maps cv2.matchTemplate can return for a shape
ScoreMaps(shape) == [Locs(shape) -> ScoreVals]

\* ty, tx = template.shape[1], template.shape[0]
TemplateSize(template) == [tx |-> template[1], ty |-> template[2]]

\* Retained with a strict comparison against the threshold.
RetainedStrict(c, threshold, ignore_inf) ==
    /\ c.t = "inf" \/ (c.t = "num" /\ c.v > threshold)
    /\ (ignore_inf => IsFinite(c))

\* np.logical_and(result >= threshold,
\*                np.isfinite(result) if ignore_inf else np.ones_like(result))
Retained(c, threshold, ignore_inf) ==
    /\ ScoreGe(c, threshold)
    /\ (IF ignore_inf THEN IsFinite(c) ELSE TRUE)

\* The loop over zip(*filtered_locations[::-1]): np.where lists the retained
\* locations row by row, and each becomes MatchResult(confidence, x, y, tx, ty).
\* i is the row-major index of the next location.
RECURSIVE MatchesFrom(_, _, _, _, _, _)
MatchesFrom(i, template, shape, result, threshold, ignore_inf) ==
    IF i >= shape[1] * shape[2]
    THEN <<>>
    ELSE LET y == i \div shape[2]
             x == i % shape[2]
             confidence == result[<<y, x>>]
             size == TemplateSize(template)
         IN  (IF Retained(confidence, threshold, ignore_inf)
              THEN <<MatchResult(confidence, x, y, size.tx, size.ty)>>
              ELSE <<>>)
             \o MatchesFrom(i + 1, template, shape, result, threshold, ignore_inf)

\* match_template once cv2.matchTemplate has returned the score map `result`
MatchTemplate(template, shape, result, threshold, ignore_inf) ==
    MatchesFrom(0, template, shape, result, threshold, ignore_inf)

Pending == [state |-> "pending", value |-> <<>>]
Raised == [state |-> "raised", value |-> <<>>]
Returned(v) == [state |-> "returned", value |-> v]

CallMatchTemplate ==
    /\ fn = "match_template"
    /\ output = Pending
    /\ LET shape == CvMatchTemplateShape(input.source, input.template, input.has_mask)
       IN  output' = IF shape = <<>>
                     THEN Raised
                     ELSE Returned(MatchTemplate(input.template, shape, input.result,
                                                 input.threshold, input.ignore_inf))
    /\ UNCHANGED <<fn, input, opvars, obsvars>>

InitMatchTemplate ==
    /\ fn = "match_template"
    /\ \E source \in Shapes, template \in Shapes, has_mask \in BOOLEAN,
          threshold \in Thresholds, ignore_inf \in BOOLEAN :
         LET shape == CvMatchTemplateShape(source, template, has_mask)
         IN  /\ Cardinality(Locs(shape)) <= MaxLocs
             /\ \E result \in ScoreMaps(shape) :
                  input = [source |-> source, template |-> template,
                           has_mask |-> has_mask, threshold |-> threshold,
                           ignore_inf |-> ignore_inf, result |-> result]

\* np.around on a value given in half pixels (321 is 160.5): to the nearest
\* integer, a half to the even one.
Around(half) ==
    LET q == half \div 2
    IN  IF half % 2 = 0 THEN q
        ELSE IF q % 2 = 0 THEN q ELSE q + 1

\* np.uint16
UInt16(n) == n % 65536

\* circles = np.uint16(np.around(circles)), one circle
RoundCircle(c) ==
    [x |-> UInt16(Around(c.x)), y |-> UInt16(Around(c.y)), r |-> UInt16(Around(c.r))]

\* What cv2.HoughCircles reports, in half pixels: centres inside the image and
\* radii within minRadius..maxRadius. <<>> stands for None (no circle).
HalfCentresX == {20, 23}
HalfCentresY == {41}
HalfRadii == {2 * MinRadius, 2 * MinRadius + 1, 2 * MinRadius + 3, 2 * MaxRadius}
HoughCircle == [x : HalfCentresX, y : HalfCentresY, r : HalfRadii]
HoughCircles == UNION {[1..n -> HoughCircle] : n \in 0..MaxCircles}

\* Larger with no test at all: every circle replaces the kept one.
LargerAlways(circle, tr) == TRUE

\* if circle[2] > tr
Larger(circle, tr) == circle.r > tr

\* for circle in circles[0, :]: keep the circle of the largest radius.
\* i is the index of the next circle, t the (tx, ty, tr) kept so far.
RECURSIVE KeepMax(_, _, _)
KeepMax(circles, i, t) ==
    IF i > Len(circles)
    THEN t
    ELSE LET circle == RoundCircle(circles[i])
         IN  KeepMax(circles, i + 1,
                     IF Larger(circle, t[3]) THEN <<circle.x, circle.y, circle.r>> ELSE t)

\* find_max_circle on the output of cv2.HoughCircles
FindMaxCircle(circles) ==
    IF circles = <<>> THEN <<0, 0, 0>> ELSE KeepMax(circles, 1, <<0, 0, 0>>)

CallFindMaxCircle ==
    /\ fn = "find_max_circle"
    /\ output = Pending
    /\ output' = Returned(FindMaxCircle(input.circles))
    /\ UNCHANGED <<fn, input, opvars, obsvars>>

InitFindMaxCircle ==
    /\ fn = "find_max_circle"
    /\ \E circles \in HoughCircles : input = [circles |-> circles]

\* The loop of concat_vertically over the match list: the first result of the
\* highest confidence, <<>> for None.
RECURSIVE BestFrom(_, _, _)
BestFrom(list, i, r) ==
    IF i > Len(list)
    THEN r
    ELSE BestFrom(list, i + 1,
                  IF r = <<>> \/ ScoreGt(list[i].confidence, r[1].confidence)
                  THEN <<list[i]>> ELSE r)

\* the first row of a[start:] for an array of n rows (Python slicing)
SliceStart(start, n) == IF start < 0 THEN Max(0, n + start) ELSE Min(start, n)

\* The rows of an image of n rows from row `first` on, each named by its image
\* and its row index.
RowsOf(name, first, n) == [k \in 1..(n - first) |-> <<name, first + k - 1>>]

\* next_part = next_img[0: decision_height, :]
StripShape(next_shape, decision_height) ==
    <<Min(decision_height, next_shape[1]), next_shape[2]>>

\* concat_vertically once cv2.matchTemplate has returned the score map
\* `result` of shape `shape`: <<>> when it raises (r is None, so r.y fails),
\* else the rows of cv2.vconcat([img, extra_part]).
ConcatVertically(img, next_img, decision_height, shape, result) ==
    LET next_part == StripShape(next_img, decision_height)
        list == MatchTemplate(next_part, shape, result, ConcatThreshold, FALSE)
        r == BestFrom(list, 1, <<>>)
    IN  IF r = <<>>
        THEN <<>>
        ELSE LET h == img[1]
                 overlap_h == h - r[1].y
                 first == SliceStart(overlap_h + 1, next_img[1])
             IN  <<RowsOf("img", 0, h) \o RowsOf("next_img", first, next_img[1])>>

\* cv2.vconcat of img with an extra part of no rows is the library's
\* business: it either returns the rows of img or raises.
CallConcatVertically ==
    /\ fn = "concat_vertically"
    /\ output = Pending
    /\ LET shape == CvMatchTemplateShape(input.img,
                        StripShape(input.next_img, input.decision_height), FALSE)
           rows == ConcatVertically(input.img, input.next_img,
                                    input.decision_height, shape, input.result)
       IN  \/ /\ rows = <<>>
              /\ output' = Raised
           \/ /\ rows # <<>>
              /\ output' = Returned(rows[1])
           \/ /\ rows # <<>>
              /\ Len(rows[1]) = input.img[1]
              /\ output' = Raised
    /\ UNCHANGED <<fn, input, opvars, obsvars>>

\* Two captures of the same width, as vertical scrolling produces them.
InitConcatVertically ==
    /\ fn = "concat_vertically"
    /\ \E h1 \in 1..MaxDim, h2 \in 1..MaxDim, w \in 1..MaxDim,
          decision_height \in 1..MaxDim :
         LET shape == CvMatchTemplateShape(<<h1, w>>,
                          StripShape(<<h2, w>>, decision_height), FALSE)
         IN  \E result \in ScoreMaps(shape) :
                input = [img |-> <<h1, w>>, next_img |-> <<h2, w>>,
                         decision_height |-> decision_height, result |-> result]

(* --- is_same_image --- *)
\* the value an unsigned 8-bit array element keeps of an integer
UInt8(n) == n % 256

\* 8-bit pixel values: equal, off by one, off by 16, and the two ends
PixelVals == {0, 1, 16, 17, 255}
\* images of n pixels, flattened
Images(n) == [1..n -> PixelVals]

\* one element of (i1 - i2) ** 2 on uint8 arrays: the difference and the
\* square are uint8 again
SquaredDiff(a, b) == UInt8(UInt8(a - b) * UInt8(a - b))

RECURSIVE SumSquaredDiff(_, _, _)
SumSquaredDiff(i1, i2, k) ==
    IF k = 0 THEN 0
    ELSE SquaredDiff(i1[k], i2[k]) + SumSquaredDiff(i1, i2, k - 1)

\* np.mean((i1 - i2) ** 2) < threshold, the mean taken in float64 over all
\* Len(i1) elements: sum / n < threshold
IsSameImage(i1, i2, threshold) ==
    SumSquaredDiff(i1, i2, Len(i1)) < threshold * Len(i1)

CallIsSameImage ==
    /\ fn = "is_same_image"
    /\ output = Pending
    /\ output' = Returned(IsSameImage(input.i1, input.i2, input.threshold))
    /\ UNCHANGED <<fn, input, opvars, obsvars>>

\* Two images of the same shape; threshold 1 is the default.
InitIsSameImage ==
    /\ fn = "is_same_image"
    /\ \E n \in 1..MaxPixels :
         \E i1 \in Images(n), i2 \in Images(n), threshold \in {1, 2} :
            input = [i1 |-> i1, i2 |-> i2, threshold |-> threshold]

(* --------------------------- sr.constants.map ------------------------- *)
\* Python's None for an optional argument or result; a value v that may be
\* None is carried as <<v>>.
None == <<>>

\* A Chinese name is written as the code points of its characters.
Planet(i, cn) == [id |-> i, cn |-> cn]

Region(i, cn, planet, level) ==
    [id |-> i, cn |-> cn, planet |-> planet, level |-> level]

\* '%s-%s' % (self.planet.id, self.id): a formatted string is the sequence
\* of the pieces it is concatenated from.
get_pr_id(region) == <<region.planet.id, "-", region.id>>

\* '%s-%s', '%s-%s-l%d' or '%s-%s-b%d' by the sign of the level
get_prl_id(region) ==
    IF region.level = 0
    THEN <<region.planet.id, "-", region.id>>
    ELSE IF region.level > 0
         THEN <<region.planet.id, "-", region.id, "-l", region.level>>
         ELSE <<region.planet.id, "-", region.id, "-b", Abs(region.level)>>

TransportPoint(id, cn, region, template_id, lm_pos) ==
    [id |-> id, cn |-> cn, region |-> region, planet |-> region.planet,
     template_id |-> template_id, lm_pos |-> lm_pos]

\* dict.get(key): None, or the value of the entry with that key (the last
\* one written in the literal)
DictGet(dict, key) ==
    LET hits == {k \in 1..Len(dict) : dict[k].key = key}
    IN  IF hits = {} THEN None
        ELSE <<dict[CHOOSE k \in hits : \A j \in hits : j <= k].value>>

P01_KZJ == Planet("kjzht", "U7A7AU95F4U7AD9")
P02_YYL == Planet("yll6", "U96C5U5229U6D1B")
P03_XZLF == Planet("zxlf", "U7F57U6D6E")
PLANET_LIST == <<P01_KZJ, P02_YYL, P03_XZLF>>
P01_R01_ZKCD == Region("zkcd", "U4E3BU63A7U8231U6BB5", P01_KZJ, 0)
P01_R02_JZCD == Region("jzcd", "U57FAU5EA7U8231U6BB5", P01_KZJ, 0)
P01_R03_SRCD_B1 == Region("srcd", "U6536U5BB9U8231U6BB5", P01_KZJ, -1)
P01_R03_SRCD_L1 == Region("srcd", "U6536U5BB9U8231U6BB5", P01_KZJ, 1)
P01_R03_SRCD_L2 == Region("srcd", "U6536U5BB9U8231U6BB5", P01_KZJ, 2)
P01_R04_ZYCD_L1 == Region("zycd", "U652FU63F4U8231U6BB5", P01_KZJ, 1)
P01_R04_ZYCD_L2 == Region("zycd", "U652FU63F4U8231U6BB5", P01_KZJ, 2)
P02_R01_L1 == Region("xzq", "U884CU653FU533A", P02_YYL, 1)
P02_R01_B1 == Region("xzq", "U884CU653FU533A", P02_YYL, -1)
P02_R02 == Region("cjxy", "U57CEU90CAU96EAU539F", P02_YYL, 0)
P02_R03 == Region("bytl", "U8FB9U7F18U901AU8DEF", P02_YYL, 0)
P02_R04 == Region("twjq", "U94C1U536BU7981U533A", P02_YYL, 0)
P02_R05 == Region("cxhl", "U6B8BU54CDU56DEU5ECA", P02_YYL, 0)
P02_R06 == Region("ydl", "U6C38U51ACU5CAD", P02_YYL, 0)
P02_R07 == Region("zwzz", "U9020U7269U4E4BU67F1", P02_YYL, 0)
P02_R08_L2 == Region("jwqsyc", "U65E7U6B66U5668U8BD5U9A8CU573A", P02_YYL, 2)
P02_R09 == Region("pyz", "U78D0U5CA9U9547", P02_YYL, 0)
P02_R10 == Region("dkq", "U5927U77FFU533A", P02_YYL, 0)
P02_R11_L1 == Region("mdz", "U94C6U9489U9547", P02_YYL, 1)
P02_R11_L2 == Region("mdz", "U94C6U9489U9547", P02_YYL, 2)
\* a dict literal, as the sequence of its key: value entries
PLANET_2_REGION ==
    << [key |-> P01_KZJ.id,
        value |-> <<P01_R01_ZKCD, P01_R02_JZCD, P01_R03_SRCD_L1,
                    P01_R03_SRCD_L2, P01_R03_SRCD_B1, P01_R04_ZYCD_L1,
                    P01_R04_ZYCD_L2>>],
       [key |-> P02_YYL.id,
        value |-> <<P02_R01_L1, P02_R01_B1, P02_R02, P02_R03, P02_R04, P02_R05,
                    P02_R06, P02_R07, P02_R08_L2, P02_R09, P02_R10, P02_R11_L1,
                    P02_R11_L2>>],
       [key |-> P03_XZLF.id,
        value |-> <<>>] >>

\* get_region_by_cn that takes the first region of that name on any floor.
get_region_by_cn_any_level(cn, planet, level) ==
    LET list == DictGet(PLANET_2_REGION, planet.id)[1]
        hits == {k \in 1..Len(list) : list[k].cn = cn}
    IN  IF hits = {} THEN None
        ELSE <<list[CHOOSE k \in hits : \A j \in hits : k <= j]>>

\* get_region_by_cn: the first region of the planet's list with that name
\* and, unless level is None, that level; None if there is none.
get_region_by_cn(cn, planet, level) ==
    LET list == DictGet(PLANET_2_REGION, planet.id)[1]
        hits == {k \in 1..Len(list) :
                    /\ list[k].cn = cn
                    /\ (level = None \/ list[k].level = level[1])}
    IN  IF hits = {} THEN None
        ELSE <<list[CHOOSE k \in hits : \A j \in hits : k <= j]>>

region_with_another_floor(region, level) ==
    get_region_by_cn(region.cn, region.planet, level)

P01_R01_SP01 ==
    TransportPoint("", "", P01_R01_ZKCD, "mm_tp_03", <<529, 231>>)
P01_R01_SP02 ==
    TransportPoint("", "", P01_R01_ZKCD, "mm_tp_03", <<592, 691>>)
P01_R01_SP03_HTBGS ==
    TransportPoint("htdbgs", "U529EU516CU5BA4", P01_R01_ZKCD, "mm_tp_04", <<245, 796>>)
P01_R01_SP04 ==
    TransportPoint("", "", P01_R01_ZKCD, "mm_sp_01", <<228, 744>>)
P01_R01_SP05 ==
    TransportPoint("", "", P01_R01_ZKCD, "mm_sp_02", <<562, 837>>)
P01_R01_SP06 ==
    TransportPoint("", "", P01_R01_ZKCD, "mm_sp_04", <<535, 628>>)
P01_R02_SP01_JKS ==
    TransportPoint("jks", "U76D1U63A7U5BA4", P01_R02_JZCD, "mm_tp_03", <<635, 143>>)
P01_R02_SP02 ==
    TransportPoint("", "", P01_R02_JZCD, "mm_tp_03", <<493, 500>>)
P01_R02_SP03 ==
    TransportPoint("", "", P01_R02_JZCD, "mm_tp_06", <<540, 938>>)
P01_R02_SP04 ==
    TransportPoint("", "", P01_R02_JZCD, "mm_tp_06", <<556, 986>>)
P01_R03_SP01_KZZXW ==
    TransportPoint("kzzxw", "U63A7U5236U4E2DU5FC3U5916", P01_R03_SRCD_L1, "mm_tp_03", <<365, 360>>)
P01_R03_SP02 ==
    TransportPoint("zt", "U4E2DU5EAD", P01_R03_SRCD_L1, "mm_tp_03", <<619, 331>>)
P01_R03_SP03 ==
    TransportPoint("", "", P01_R03_SRCD_L2, "mm_tp_03", <<758, 424>>)
P01_R03_SP04 ==
    TransportPoint("", "", P01_R03_SRCD_L2, "mm_tp_03", <<1033, 495>>)
P01_R03_SP05_HMZL ==
    TransportPoint("hmzl", "U6BC1U706DU4E4BU857E", P01_R03_SRCD_L1, "mm_tp_07", <<309, 310>>)
P01_R03_SP06 ==
    TransportPoint("", "", P01_R03_SRCD_L1, "mm_tp_09", <<840, 352>>)
P01_R03_SP07 ==
    TransportPoint("", "", P01_R03_SRCD_L1, "mm_sp_02", <<600, 349>>)
P01_R04_SP01 ==
    TransportPoint("dls", "U7535U529BU5BA4", P01_R04_ZYCD_L2, "mm_tp_03", <<155, 380>>)
P01_R04_SP02 ==
    TransportPoint("bjkf", "U5907U4EF6U5E93U623F", P01_R04_ZYCD_L2, "mm_tp_03", <<424, 206>>)
P01_R04_SP03 ==
    TransportPoint("yt", "U6708U53F0", P01_R04_ZYCD_L2, "mm_tp_03", <<778, 370>>)
P01_R04_SP04 ==
    TransportPoint("chzl", "U5B58U62A4U4E4BU857E", P01_R04_ZYCD_L2, "mm_tp_07", <<457, 288>>)
P01_R04_SP05 ==
    TransportPoint("tkdt", "U592AU7A7AU7535U68AF", P01_R04_ZYCD_L2, "mm_sp_02", <<105, 345>>)
P02_R02_SP01 ==
    TransportPoint("cp", "U957FU5761", P02_R02, "mm_tp_03", <<1035, 319>>)
P02_R02_SP02 ==
    TransportPoint("zld", "U7740U9646U70B9", P02_R02, "mm_tp_03", <<1283, 367>>)
P02_R02_SP03 ==
    TransportPoint("xlzl", "U5DE1U730EU4E4BU857E", P02_R02, "mm_tp_07", <<946, 244>>)
P02_R02_SP04 ==
    TransportPoint("hyzl", "U56DEU5FC6U4E4BU857E", P02_R02, "mm_tp_08", <<1098, 391>>)
P02_R02_SP05 ==
    TransportPoint("xzq", "U884CU653FU533A", P02_R02, "mm_sp_02", <<444, 109>>)
P02_R02_SP06 ==
    TransportPoint("lk", "U73B2U53EF", P02_R02, "mm_sp_03", <<1032, 342>>)
P02_R03_SP01 ==
    TransportPoint("hcgc", "U5019U8F66U5E7FU573A", P02_R03, "mm_tp_03", <<598, 832>>)
P02_R03_SP02 ==
    TransportPoint("xxgc", "U4F11U95F2U5E7FU573A", P02_R03, "mm_tp_03", <<690, 480>>)
P02_R03_SP03 ==
    TransportPoint("gdjz", "U6B4CU5FB7", P02_R03, "mm_tp_03", <<811, 259>>)
P02_R03_SP04 ==
    TransportPoint("hgzx", "U5E7BU5149U4E4BU5F62", P02_R03, "mm_tp_06", <<450, 840>>)
P02_R03_SP05 ==
    TransportPoint("frzl", "U4E30U9976U4E4BU857E", P02_R03, "mm_tp_07", <<659, 509>>)
P02_R03_SP06 ==
    TransportPoint("ytzl", "U4EE5U592AU4E4BU857E", P02_R03, "mm_tp_08", <<596, 194>>)
P02_R05_SP01 ==
    TransportPoint("zcly", "U7B51U57CEU9886U57DF", P02_R05, "mm_tp_03", <<770, 442>>)
P02_R05_SP02 ==
    TransportPoint("zcly", "U6C61U67D3U5E7FU573A", P02_R05, "mm_tp_03", <<381, 655>>)
P02_R05_SP03 ==
    TransportPoint("zzzhs", "U4F5CU6218U6307U6325U5BA4", P02_R05, "mm_tp_03", <<495, 856>>)
P02_R05_SP04 ==
    TransportPoint("gzcqx", "U53E4U6218U573AU524DU7EBF", P02_R05, "mm_tp_03", <<570, 1243>>)
P02_R05_SP05 ==
    TransportPoint("mlzx", "U9E23U96F7U4E4BU5F62", P02_R05, "mm_tp_06", <<526, 640>>)
P02_R05_SP06 ==
    TransportPoint("sjzx", "U971CU6676U4E4BU5F62", P02_R05, "mm_tp_06", <<681, 1231>>)
P02_R05_SP07 ==
    TransportPoint("pbzj", "U6F02U6CCAU4E4BU5F84", P02_R05, "mm_tp_09", <<654, 242>>)
P02_R05_SP08 ==
    TransportPoint("twjq", "U94C1U536BU7981U533A", P02_R05, "mm_sp02", <<389, 626>>)
P02_R05_SP09 ==
    TransportPoint("ydl", "U6C38U51ACU5CAD", P02_R05, "mm_sp02", <<733, 1280>>)
P02_R06_SP01 ==
    TransportPoint("gzc", "U53E4U6218U573A", P02_R06, "mm_tp_03", <<366, 776>>)
P02_R06_SP02 ==
    TransportPoint("zwpt", "U9020U7269U5E73U53F0", P02_R06, "mm_tp_03", <<784, 571>>)
P02_R06_SP03 ==
    TransportPoint("rzzj", "U777FU6CBBU4E4BU5F84", P02_R06, "mm_tp_09", <<585, 663>>)
P02_R06_SP04 ==
    TransportPoint("cxhl", "U6B8BU54CDU56DEU5ECA", P02_R06, "mm_sp_02", <<338, 793>>)
P02_R10_SP01 ==
    TransportPoint("rk", "U5165U53E3", P02_R10, "mm_tp_03", <<333, 166>>)
P02_R10_SP02 ==
    TransportPoint("llzbns", "U6D41U6D6AU8005U907FU96BEU6240", P02_R10, "mm_tp_03", <<778, 349>>)
P02_R10_SP03 ==
    TransportPoint("fkd", "U4FEFU77B0U70B9", P02_R10, "mm_tp_03", <<565, 641>>)
P02_R10_SP04 ==
    TransportPoint("zkd", "U4E3BU77FFU9053", P02_R10, "mm_tp_03", <<530, 757>>)
P02_R10_SP05 ==
    TransportPoint("fmzx", "U950BU8292U4E4BU5F62", P02_R10, "mm_tp_06", <<561, 536>>)
P02_R10_SP06 ==
    TransportPoint("fzzx", "U71D4U707CU4E4BU5F62", P02_R10, "mm_tp_06", <<836, 630>>)
P02_R10_SP07 ==
    TransportPoint("xwzl", "U865AU65E0U4E4BU857E", P02_R10, "mm_tp_07", <<295, 243>>)
P02_R10_SP08 ==
    TransportPoint("czzl", "U85CFU73CDU4E4BU857E", P02_R10, "mm_tp_08", <<554, 686>>)
P02_R10_SP09 ==
    TransportPoint("pyz", "U78D0U5CA9U9547", P02_R10, "mm_sp_02", <<351, 144>>)

REGION_2_SP ==
    << [key |-> get_pr_id(P01_R01_ZKCD),
        value |-> <<P01_R01_SP03_HTBGS>>],
       [key |-> get_pr_id(P01_R02_JZCD),
        value |-> <<P01_R02_SP01_JKS>>],
       [key |-> get_pr_id(P01_R03_SRCD_L1),
        value |-> <<P01_R03_SP01_KZZXW, P01_R03_SP02, P01_R03_SP03,
                    P01_R03_SP04, P01_R03_SP05_HMZL, P01_R03_SP06, P01_R03_SP07>>],
       [key |-> get_pr_id(P01_R04_ZYCD_L1),
        value |-> <<P01_R04_SP01, P01_R04_SP02, P01_R04_SP03, P01_R04_SP04,
                    P01_R04_SP05>>],
       [key |-> get_pr_id(P02_R02),
        value |-> <<P02_R02_SP01, P02_R02_SP02, P02_R02_SP03, P02_R02_SP04,
                    P02_R02_SP05, P02_R02_SP06>>],
       [key |-> get_pr_id(P02_R03),
        value |-> <<P02_R03_SP01, P02_R03_SP02, P02_R03_SP03, P02_R03_SP04,
                    P02_R03_SP05, P02_R03_SP06>>],
       [key |-> get_pr_id(P02_R05),
        value |-> <<P02_R05_SP01, P02_R05_SP02, P02_R05_SP03, P02_R05_SP04,
                    P02_R05_SP05, P02_R05_SP06, P02_R05_SP07, P02_R05_SP08,
                    P02_R05_SP09>>],
       [key |-> get_pr_id(P02_R06),
        value |-> <<P02_R06_SP01, P02_R06_SP02, P02_R06_SP03, P02_R06_SP04>>],
       [key |-> get_pr_id(P02_R10),
        value |-> <<P02_R10_SP01, P02_R10_SP02, P02_R10_SP03, P02_R10_SP04,
                    P02_R10_SP05, P02_R10_SP06, P02_R10_SP07, P02_R10_SP08,
                    P02_R10_SP09>>] >>

\* cal_utils.in_rect(pos, rect) for rect = (x1, y1, x2, y2)
in_rect(p, rect) ==
    /\ rect[1] <= p[1] /\ p[1] <= rect[3]
    /\ rect[2] <= p[2] /\ p[2] <= rect[4]

\* get_sp_type_in_rect: <<>> when iterating sp_list raises (the dict has no
\* entry for the key), else <<sp_map>>, the points of the list inside rect
\* grouped by template_id in list order.
get_sp_type_in_rect(region, rect) ==
    LET sp_list == DictGet(REGION_2_SP, get_pr_id(region))
    IN  IF sp_list = None THEN <<>>
        ELSE LET Keep(sp) == rect = None \/ in_rect(sp.lm_pos, rect)
                 kept == SelectSeq(sp_list[1], Keep)
                 ids == {kept[k].template_id : k \in 1..Len(kept)}
             IN  <<[t \in ids |->
                      LET OfType(sp) == sp.template_id = t
                      IN  SelectSeq(kept, OfType)]>>

\* every region registered in PLANET_2_REGION, in the order of the literal
RECURSIVE RegisteredFrom(_)
RegisteredFrom(k) ==
    IF k > Len(PLANET_2_REGION) THEN <<>>
    ELSE PLANET_2_REGION[k].value \o RegisteredFrom(k + 1)

Registered == RegisteredFrom(1)
RegisteredSet == {Registered[k] : k \in 1..Len(Registered)}
Planets == {PLANET_LIST[k] : k \in 1..Len(PLANET_LIST)}
\* a level argument: None or an integer level
LevelArgs == {None} \cup {<<l>> : l \in (-MaxLevel)..MaxLevel}
\* a rect argument: None or (x1, y1, x2, y2) on the large map
Rects == {None, <<0, 0, 2000, 2000>>, <<0, 0, 500, 500>>, <<500, 300, 1100, 1000>>}

CallGetRegionByCn ==
    /\ fn = "get_region_by_cn"
    /\ output = Pending
    /\ output' = Returned(get_region_by_cn(input.cn, input.planet, input.level))
    /\ UNCHANGED <<fn, input, opvars, obsvars>>

InitGetRegionByCn ==
    /\ fn = "get_region_by_cn"
    /\ \E r \in RegisteredSet, planet \in Planets, level \in LevelArgs :
         input = [cn |-> r.cn, planet |-> planet, level |-> level]

CallRegionWithAnotherFloor ==
    /\ fn = "region_with_another_floor"
    /\ output = Pending
    /\ output' = Returned(region_with_another_floor(input.region, input.level))
    /\ UNCHANGED <<fn, input, opvars, obsvars>>

InitRegionWithAnotherFloor ==
    /\ fn = "region_with_another_floor"
    /\ \E region \in RegisteredSet, level \in LevelArgs :
         input = [region |-> region, level |-> level]

CallGetPrlId ==
    /\ fn = "get_prl_id"
    /\ output = Pending
    /\ output' = Returned(get_prl_id(input.region))
    /\ UNCHANGED <<fn, input, opvars, obsvars>>

InitGetPrlId ==
    /\ fn = "get_prl_id"
    /\ \E k \in 1..Len(Registered) :
         input = [region |-> Registered[k], index |-> k]

CallGetSpTypeInRect ==
    /\ fn = "get_sp_type_in_rect"
    /\ output = Pending
    /\ LET sp_map == get_sp_type_in_rect(input.region, input.rect)
       IN  output' = IF sp_map = <<>> THEN Raised ELSE Returned(sp_map[1])
    /\ UNCHANGED <<fn, input, opvars, obsvars>>

InitGetSpTypeInRect ==
    /\ fn = "get_sp_type_in_rect"
    /\ \E region \in RegisteredSet, rect \in Rects :
         input = [region |-> region, rect |-> rect]

(* ------------------------- specifications ----------------------------- *)
InitOp ==
    /\ scale \in (-MaxScale)..MaxScale
    /\ click_times = 0
    /\ pos = NoPos
    /\ op_round = 0
    /\ status = "READY"
    /\ paused = FALSE

InitObs ==
    /\ rounds = 0
    /\ n_clicks = 0
    /\ last_round = [result |-> "NONE", looked |-> FALSE, shot |-> "unused",
                     clicked |-> FALSE]
    /\ last_event = "init"
    /\ pause_clicks = 0
    /\ last_click = <<>>
    /\ all_retry = TRUE
    /\ never_found = TRUE
    /\ epoch = 0
    /\ pos_epoch = 0
    /\ round_raised = <<>>
    /\ matched = <<>>

Init ==
    /\ InitOp
    /\ InitObs
    /\ fn = "none"
    /\ input = <<>>
    /\ output = <<>>

Next == Start \/ Round \/ Pause \/ OnResume

Spec == Init /\ [][Next]_vars

\* An operation that is not under test while an image helper is called.
InitImg ==
    /\ scale = 1
    /\ click_times = 0
    /\ pos = NoPos
    /\ op_round = 0
    /\ status = "READY"
    /\ paused = FALSE
    /\ InitObs
    /\ output = Pending
    /\ \/ InitMatchTemplate
       \/ InitFindMaxCircle
       \/ InitConcatVertically
       \/ InitIsSameImage

NextImg ==
    \/ CallMatchTemplate
    \/ CallFindMaxCircle
    \/ CallConcatVertically
    \/ CallIsSameImage

SpecImg == InitImg /\ [][NextImg]_vars

\* One call of a lookup of sr.constants.map; no operation is under test.
InitMap ==
    /\ scale = 1
    /\ click_times = 0
    /\ pos = NoPos
    /\ op_round = 0
    /\ status = "READY"
    /\ paused = FALSE
    /\ InitObs
    /\ output = Pending
    /\ \/ InitGetRegionByCn
       \/ InitRegionWithAnotherFloor
       \/ InitGetPrlId
       \/ InitGetSpTypeInRect

NextMap ==
    \/ CallGetRegionByCn
    \/ CallRegionWithAnotherFloor
    \/ CallGetPrlId
    \/ CallGetSpTypeInRect

SpecMap == InitMap /\ [][NextMap]_vars

(* ------------------------ claims on the operation --------------------- *)

\* C1: with the zoom button never found every round returns RETRY, no click
\* is sent, the operation never ends with SUCCESS, and it ends with FAIL
\* exactly when TryTimes rounds have been executed: never before, and no
\* further round follows.
C1_RetryBudget ==
    /\ rounds <= TryTimes
    /\ never_found =>
        /\ all_retry
        /\ n_clicks = 0
        /\ status # "SUCCESS"
        /\ (status = "FAIL" <=> rounds = TryTimes)

C1_Witness ==
    never_found /\ all_retry /\ status = "FAIL" /\ rounds = TryTimes

\* C2: WAIT rounds consume the budget like RETRY rounds: every executed round
\* uses one unit of it, at most TryTimes rounds are executed whatever the
\* scale, and an operation whose TryTimes-th round returned RETRY or WAIT has
\* ended with FAIL.
C2_WaitConsumesBudget ==
    /\ rounds = op_round
    /\ rounds <= TryTimes
    /\ (status = "RUNNING" => rounds < TryTimes)
    /\ (rounds = TryTimes /\ last_round.result \in {"RETRY", "WAIT"}
          => status = "FAIL")

C2_Witness ==
    /\ status = "FAIL"
    /\ rounds = TryTimes
    /\ last_round.result = "WAIT"
    /\ 0 < n_clicks /\ n_clicks < rounds
    /\ Abs(scale) > TryTimes

\* C3: once the lookup of a round has raised, the operation is FAIL, that
\* round was its last one (no round was executed since) and no click was sent
\* in it or after it; the round did not count as RETRY or WAIT.
C3_RaiseIsTerminalFail ==
    round_raised # <<>> =>
        /\ status = "FAIL"
        /\ last_round.result = "RAISE"
        /\ rounds = round_raised[1].round
        /\ n_clicks = round_raised[1].clicks

C3_Witness ==
    /\ round_raised # <<>>
    /\ round_raised[1].round < TryTimes
    /\ round_raised[1].clicks > 0
    /\ status = "FAIL"

C5_ExactlyTheLocationsClearing ==
    (fn = "match_template" /\ output.state = "returned") =>
        LET shape == CvMatchTemplateShape(input.source, input.template, input.has_mask)
            list == output.value
            At(i) == <<list[i].y, list[i].x>>
            Clears(c) ==
                /\ c.t = "inf" \/ (c.t = "num" /\ c.v >= input.threshold)
                /\ (input.ignore_inf => c.t = "num")
        IN  /\ \A i \in 1..Len(list) :
                /\ At(i) \in Locs(shape)
                /\ list[i].confidence = input.result[At(i)]
                /\ list[i].confidence.t # "nan"
                /\ list[i].confidence.t = "num" => list[i].confidence.v >= input.threshold
            /\ \A loc \in Locs(shape) :
                Cardinality({i \in 1..Len(list) : At(i) = loc})
                    = IF Clears(input.result[loc]) THEN 1 ELSE 0

C5_Witness ==
    /\ fn = "match_template"
    /\ output.state = "returned"
    /\ Len(output.value) = 2
    /\ Cardinality(DOMAIN input.result) = 3
    /\ input.threshold = 5
    /\ \E i \in 1..2 : output.value[i].confidence = Num(5)
    /\ \E loc \in DOMAIN input.result : input.result[loc] = Num(0)

\* C6: every MatchResult of match_template has w = the template's width (its
\* number of columns) and h = the template's height (its number of rows);
\* stated for a template that fits into the source.
C6_TemplateWidthHeight ==
    (/\ fn = "match_template"
     /\ output.state = "returned"
     /\ input.source[1] >= input.template[1]
     /\ input.source[2] >= input.template[2]) =>
        \A i \in 1..Len(output.value) :
            /\ output.value[i].w = input.template[2]
            /\ output.value[i].h = input.template[1]

\* C7: when the best-matching strip shows an overlap of k rows (it lies k rows
\* above the bottom of img, 1 <= k <= h2, all scores finite), the image
\* concat_vertically returns has h1 + h2 - k rows.
C7_HeightIsSumMinusOverlap ==
    (fn = "concat_vertically" /\ output.state = "returned") =>
        LET h1 == input.img[1]
            h2 == input.next_img[1]
            strip == StripShape(input.next_img, input.decision_height)
            shape == CvMatchTemplateShape(input.img, strip, FALSE)
            best == BestFrom(MatchTemplate(strip, shape, input.result,
                                           ConcatThreshold, FALSE), 1, <<>>)
        IN  (/\ strip[1] <= h1
             /\ \A loc \in DOMAIN input.result : input.result[loc].t = "num"
             /\ best # <<>>
             /\ h1 - best[1].y <= h2)
                => Len(output.value) = h1 + h2 - (h1 - best[1].y)

\* C8: match_template with a template larger than the source in either
\* dimension returns an empty list and does not raise.
C8_LargerTemplateIsEmpty ==
    (/\ fn = "match_template"
     /\ output # Pending
     /\ \/ input.template[1] > input.source[1]
        \/ input.template[2] > input.source[2])
        => output = Returned(<<>>)

\* C9: absence of a match is never an exception: with no location clearing the
\* threshold match_template returns an empty list, with no circle detected
\* find_max_circle returns its no-circle value (0, 0, 0), and with no position
\* of the strip matching at 0.5 concat_vertically returns.
C9_AbsenceNeverRaises ==
    /\ (/\ fn = "match_template"
        /\ output # Pending
        /\ input.source[1] >= input.template[1]
        /\ input.source[2] >= input.template[2]
        /\ \A loc \in DOMAIN input.result :
              ~Retained(input.result[loc], input.threshold, input.ignore_inf))
          => output = Returned(<<>>)
    /\ (fn = "find_max_circle" /\ output # Pending /\ input.circles = <<>>)
          => output = Returned(<<0, 0, 0>>)
    /\ (/\ fn = "concat_vertically"
        /\ output # Pending
        /\ StripShape(input.next_img, input.decision_height)[1] <= input.img[1]
        /\ \A loc \in DOMAIN input.result :
              ~ScoreGe(input.result[loc], ConcatThreshold))
          => output.state = "returned"

C11_MatchResultUnmodified ==
    (pos # NoPos /\ matched # NoPos) =>
        /\ pos[1].x = matched[1].x
        /\ pos[1].y = matched[1].y

(* ------------------------------- C12 ---------------------------------- *)
\* C12: for every integer scale the operation never issues more than |scale|
\* clicks (so scale 0 issues none), it reports SUCCESS only with exactly
\* |scale| clicks issued, the round whose click is the |scale|-th reports
\* SUCCESS, and every click goes to 'plus' for a positive and to 'minus' for
\* a negative scale.
C12_SuccessExactlyAtAbsScaleClicks ==
    /\ n_clicks <= Abs(scale)
    /\ status = "SUCCESS" => n_clicks = Abs(scale)
    /\ (last_event = "round" /\ last_round.clicked /\ n_clicks = Abs(scale))
           => status = "SUCCESS"
    /\ (last_click # <<>> /\ scale > 0) => last_click[1].target.template_id = "plus"
    /\ (last_click # <<>> /\ scale < 0) => last_click[1].target.template_id = "minus"

(* ------------------------------- C13 ---------------------------------- *)
\* C13: is_same_image(i1, i2, threshold) returns true exactly when the mean
\* over all pixels of the squared difference of the 8-bit pixel values,
\* computed without wrapping modulo 256, is below threshold; two images that
\* differ by 16 at every pixel are therefore not the same at threshold 1.
C13_MeanSquaredDifference ==
    (fn = "is_same_image" /\ output.state = "returned") =>
        LET n == Len(input.i1)
            sq[k \in 0..n] ==
                IF k = 0 THEN 0
                ELSE (input.i1[k] - input.i2[k]) * (input.i1[k] - input.i2[k])
                     + sq[k - 1]
        IN  output.value = (sq[n] < input.threshold * n)

(* ------------------------------- C14 ---------------------------------- *)
\* C14: the identity key (planet.id, region.id, level) is unique over the
\* regions registered in PLANET_2_REGION: the key and the get_prl_id string
\* of a registered region differ from those of every other registered
\* region, get_region_by_cn with a level that is not None matches at most
\* one region, and region_with_another_floor(r, r.level) returns r itself.
C14_IdentityKeyUnique ==
    /\ (fn = "get_prl_id" /\ output.state = "returned") =>
          \A k \in 1..Len(Registered) :
             k # input.index =>
                /\ <<Registered[k].planet.id, Registered[k].id, Registered[k].level>>
                      # <<input.region.planet.id, input.region.id, input.region.level>>
                /\ get_prl_id(Registered[k]) # output.value
    /\ (fn = "get_region_by_cn" /\ output.state = "returned" /\ input.level # None) =>
          LET matching == {k \in 1..Len(Registered) :
                              /\ Registered[k].planet.id = input.planet.id
                              /\ Registered[k].cn = input.cn
                              /\ Registered[k].level = input.level[1]}
          IN  /\ Cardinality(matching) <= 1
              /\ output.value = IF matching = {} THEN None
                                ELSE <<Registered[CHOOSE k \in matching : TRUE]>>
    /\ (fn = "region_with_another_floor" /\ output.state = "returned"
            /\ input.level = <<input.region.level>>) =>
          output.value = <<input.region>>

\* the lowest floor of a region with three floors is looked up by its own level
C14_Witness ==
    /\ fn = "region_with_another_floor"
    /\ output.state = "returned"
    /\ input.region = P01_R03_SRCD_B1
    /\ input.level = <<-1>>
    /\ output.value = <<P01_R03_SRCD_B1>>

(* ------------------------------- C15 ---------------------------------- *)
\* C15: for every registered region and every rect, None included,
\* get_sp_type_in_rect returns without raising, and every transport point it
\* returns belongs to the queried region: its region has the same
\* (planet.id, region.id, level) as the argument.
C15_PointsOfQueriedRegion ==
    (fn = "get_sp_type_in_rect" /\ output # Pending) =>
        /\ output.state = "returned"
        /\ \A t \in DOMAIN output.value :
              \A k \in 1..Len(output.value[t]) :
                 LET sp == output.value[t][k]
                 IN  <<sp.region.planet.id, sp.region.id, sp.region.level>>
                        = <<input.region.planet.id, input.region.id,
                            input.region.level>>

(* ------------------------------- C16 ---------------------------------- *)
\* C16: a round that returns, returns RETRY if and only if no button
\* position is known after its lookup; a RETRY round has looked at a new
\* screenshot, sends no click, leaves click_times unchanged and pos unset,
\* and a round that starts with pos unset takes a new screenshot; a round
\* that returns WAIT or SUCCESS has sent exactly one click and increased
\* click_times by exactly 1.
C16_RetryIffNoPosition ==
    [][ rounds' = rounds + 1 =>
          LET res == last_round'.result
          IN  /\ res # "RAISE" => (res = "RETRY" <=> pos' = NoPos)
              /\ res = "RETRY" =>
                    /\ last_round'.looked
                    /\ last_round'.shot = "none"
                    /\ ~last_round'.clicked
                    /\ n_clicks' = n_clicks
                    /\ click_times' = click_times
                    /\ pos = NoPos /\ pos' = NoPos
              /\ pos = NoPos => last_round'.looked
              /\ res \in {"WAIT", "SUCCESS"} =>
                    /\ last_round'.clicked
                    /\ n_clicks' = n_clicks + 1
                    /\ click_times' = click_times + 1
    ]_vars

\* a RETRY round after clicks were made: the resume lost the button
C16_Witness ==
    /\ last_event = "round"
    /\ last_round.result = "RETRY"
    /\ n_clicks > 0
    /\ pos = NoPos

(* ------------------------------- C17 ---------------------------------- *)
\* C17: pauses and resumes between the rounds do not disturb the click
\* count: click_times is the number of clicks sent so far, before and after
\* every pause and resume; it is not changed by a pause or by on_resume;
\* and with any number of pauses the operation reports SUCCESS only with
\* exactly |scale| clicks sent in total, in the round whose click is the
\* |scale|-th.
C17_ClickTimesSurvivesResume ==
    /\ click_times = n_clicks
    /\ last_event \in {"pause", "resume_found", "resume_none", "resume_raise"}
          => (click_times = pause_clicks /\ n_clicks = pause_clicks)
    /\ status = "SUCCESS" => click_times = Abs(scale)
    /\ (epoch > 0 /\ last_event = "round" /\ last_round.clicked
            /\ click_times = Abs(scale)) => status = "SUCCESS"

\* paused after the first click, resumed, and finished with further clicks
C17_Witness ==
    /\ status = "SUCCESS"
    /\ epoch > 0
    /\ pause_clicks > 0
    /\ n_clicks > pause_clicks
    /\ n_clicks = Abs(scale)
====
